---- MODULE Spec2Model ----
(***************************************************************************)
(* Model of meticulous' interactive task engine.                           *)
(*                                                                         *)
(*  - _webstate.py: StateHandler, the interaction channel shared by the    *)
(*    worker thread, the thread that calls start()/stop() and the web      *)
(*    request threads that deliver answers (specification Spec) and show   *)
(*    the page (specification SpecRender).                                 *)
(*  - _submit.py: the submission task handlers run by the controller       *)
(*    (specification SpecPipeline).                                        *)
(***************************************************************************)
EXTENDS Integers, Sequences, FiniteSets, TLC

\* ------------------------------------------------------------------ bounds
MaxThreads == 2
MaxAsks == 2
MaxMessages == 1
MaxStore == 2
MaxTasks == 1
MaxQueued == 3

\* ------------------------------------------------- interaction channel state
VARIABLES
    alive,          \* StateHandler.alive
    started_at,     \* StateHandler.started_at: "min" or "now"
    messages,       \* StateHandler.messages
    await_key,      \* StateHandler.await_key (NoKey models None)
    response_val,   \* StateHandler.response_val (None models None)
    thread,         \* StateHandler.thread: 0 models None, else a thread id
    lock,           \* owner of StateHandler.condition's lock, 0 when free
    nthreads,       \* threads created so far
    wpc,            \* position of each worker thread
    wkey,           \* the key a worker passed to get_await
    wret,           \* the value get_await returned to the worker
    cpc,            \* position of the thread calling start()/stop()
    cnested,        \* TRUE while stop() runs as a call made by start()
    cjoin,          \* the thread stop() is joining
    issued,         \* uuids of the questions asked so far, in order
    accepted,       \* the last submission the answer handler accepted
    sub,            \* the submission delivered by the step just taken
    rpc,            \* position of the web request thread inside response()
    rlog            \* the messages response() has read

chanVars == <<alive, started_at, messages, await_key, response_val, thread,
              lock, nthreads, wpc, wkey, wret, cpc, cnested, cjoin, issued,
              accepted, sub, rpc, rlog>>

None == "None"
NoKey == [uuid |-> 0, kind |-> "none"]
NoSub == [q |-> -1, id |-> 0]
NoAnswer == [q |-> 0, id |-> 0, val |-> None]
\* The two kinds of Awaiter.
Kinds == {"Input", "Confirmation"}
Threads == 1..MaxThreads

\* The values a form submission carries: Yes/No of a Confirmation, the text
\* of an Input (possibly empty).
Values == {"True", "False", "", "text"}


\* ------------------------------------------------------- submission state
VARIABLES
    store,          \* the MULTI_SAVE_KEY list of the saved-fix store
    queue,          \* the controller's task queue, in dequeue order
    nextId,         \* tasks created so far (tasks are numbered as created)
    executed,       \* the tasks run so far, in execution order
    last            \* what the task run last did

pipeVars == <<store, queue, nextId, executed, last>>

vars == <<chanVars, pipeVars>>

\* ============================================================ _webstate.py

\* Awaiter.__init__: uuid4() gives every question an identifier no earlier
\* question has; n is the number of questions created before.
NewUuidShared(n) == 1
NewUuid(n) == n + 1

\* StateHandler.get_input / get_confirmation build the key to await.
MakeKey(kind, n) == [uuid |-> NewUuid(n), kind |-> kind]

\* get_await, line 82: the answer slot is emptied before the wait.
AwaitResetKept(rv) == rv
AwaitReset(rv) == None

\* get_await, line 84: the wait goes on while the slot holds None.
AwaitMore(rv) == rv = None

\* StateHandler.send
send(msgs, m) == Append(msgs, m)

ChanInit ==
    /\ alive = FALSE
    /\ started_at = "min"
    /\ messages = <<>>
    /\ await_key = NoKey
    /\ response_val = None
    /\ thread = 0
    /\ lock = 0
    /\ nthreads = 0
    /\ wpc = [t \in Threads |-> "unborn"]
    /\ wkey = [t \in Threads |-> NoKey]
    /\ wret = [t \in Threads |-> None]
    /\ cpc = "idle"
    /\ cnested = FALSE
    /\ cjoin = 0
    /\ issued = <<>>
    /\ accepted = NoAnswer
    /\ sub = NoSub
    /\ rpc = "idle"
    /\ rlog = <<>>

Goto(t, pc) == wpc' = [wpc EXCEPT ![t] = pc]

\* ---- StateHandler.run (the worker thread)
RunStartedAt(t) ==
    /\ wpc[t] = "run_start"
    /\ started_at' = "now"
    /\ Goto(t, "run_alive")
    /\ sub' = NoSub
    /\ UNCHANGED <<rpc, rlog>>
    /\ UNCHANGED pipeVars
    /\ UNCHANGED <<alive, messages, await_key, response_val, thread, lock,
                   nthreads, wkey, wret, cpc, cnested, cjoin, issued, accepted>>

RunSetAlive(t) ==
    /\ wpc[t] = "run_alive"
    /\ alive' = TRUE
    /\ Goto(t, "loop")
    /\ sub' = NoSub
    /\ UNCHANGED <<rpc, rlog>>
    /\ UNCHANGED pipeVars
    /\ UNCHANGED <<started_at, messages, await_key, response_val, thread, lock,
                   nthreads, wkey, wret, cpc, cnested, cjoin, issued, accepted>>

RunLoop(t) ==
    /\ wpc[t] = "loop"
    /\ Goto(t, IF alive THEN "core" ELSE "exited")
    /\ sub' = NoSub
    /\ UNCHANGED <<rpc, rlog>>
    /\ UNCHANGED pipeVars
    /\ UNCHANGED <<alive, started_at, messages, await_key, response_val, thread,
                   lock, nthreads, wkey, wret, cpc, cnested, cjoin, issued,
                   accepted>>

\* ---- multiworker_core: one pass runs a task's handler, which may log
\* messages and ask questions through the channel, or finds nothing to run.
CoreSend(t) ==
    /\ wpc[t] = "core"
    /\ Len(messages) < MaxMessages
    /\ messages' = send(messages, "msg")
    /\ sub' = NoSub
    /\ UNCHANGED <<rpc, rlog>>
    /\ UNCHANGED pipeVars
    /\ UNCHANGED <<alive, started_at, await_key, response_val, thread, lock,
                   nthreads, wpc, wkey, wret, cpc, cnested, cjoin, issued,
                   accepted>>

CoreAsk(t) ==
    /\ wpc[t] = "core"
    /\ Len(issued) < MaxAsks
    /\ \E kind \in Kinds :
         LET key == MakeKey(kind, Len(issued)) IN
         /\ wkey' = [wkey EXCEPT ![t] = key]
         /\ issued' = Append(issued, key.uuid)
    /\ Goto(t, "ask_acquire")
    /\ sub' = NoSub
    /\ UNCHANGED <<rpc, rlog>>
    /\ UNCHANGED pipeVars
    /\ UNCHANGED <<alive, started_at, messages, await_key, response_val, thread,
                   lock, nthreads, wret, cpc, cnested, cjoin, accepted>>

\* The handler's locals (the key it asked, the answer it got) end with it.
CoreReturn(t) ==
    /\ wpc[t] \in {"core", "asked"}
    /\ Goto(t, "loop")
    /\ wkey' = [wkey EXCEPT ![t] = NoKey]
    /\ wret' = [wret EXCEPT ![t] = None]
    /\ sub' = NoSub
    /\ UNCHANGED <<rpc, rlog>>
    /\ UNCHANGED pipeVars
    /\ UNCHANGED <<alive, started_at, messages, await_key, response_val, thread,
                   lock, nthreads, cpc, cnested, cjoin, issued, accepted>>

\* ---- StateHandler.get_await
AskAcquire(t) ==
    /\ wpc[t] = "ask_acquire"
    /\ lock = 0
    /\ lock' = t
    /\ Goto(t, "ask_clear")
    /\ sub' = NoSub
    /\ UNCHANGED <<rpc, rlog>>
    /\ UNCHANGED pipeVars
    /\ UNCHANGED <<alive, started_at, messages, await_key, response_val, thread,
                   nthreads, wkey, wret, cpc, cnested, cjoin, issued, accepted>>

AskClear(t) ==
    /\ wpc[t] = "ask_clear"
    /\ response_val' = AwaitReset(response_val)
    /\ Goto(t, "ask_setkey")
    /\ sub' = NoSub
    /\ UNCHANGED <<rpc, rlog>>
    /\ UNCHANGED pipeVars
    /\ UNCHANGED <<alive, started_at, messages, await_key, thread, lock,
                   nthreads, wkey, wret, cpc, cnested, cjoin, issued, accepted>>

AskSetKey(t) ==
    /\ wpc[t] = "ask_setkey"
    /\ await_key' = wkey[t]
    /\ Goto(t, "ask_check")
    /\ sub' = NoSub
    /\ UNCHANGED <<rpc, rlog>>
    /\ UNCHANGED pipeVars
    /\ UNCHANGED <<alive, started_at, messages, response_val, thread, lock,
                   nthreads, wkey, wret, cpc, cnested, cjoin, issued, accepted>>

\* while self.response_val is None: self.condition.wait(10); wait releases
\* the lock, leaving the with block releases it too.
AskCheck(t) ==
    /\ wpc[t] = "ask_check"
    /\ lock' = 0
    /\ Goto(t, IF AwaitMore(response_val) THEN "ask_wait" ELSE "ask_return")
    /\ sub' = NoSub
    /\ UNCHANGED <<rpc, rlog>>
    /\ UNCHANGED pipeVars
    /\ UNCHANGED <<alive, started_at, messages, await_key, response_val, thread,
                   nthreads, wkey, wret, cpc, cnested, cjoin, issued, accepted>>

\* wait(10) ends on a notify or when the 10 seconds have passed, and takes
\* the lock again.
AskWake(t) ==
    /\ wpc[t] = "ask_wait"
    /\ lock = 0
    /\ lock' = t
    /\ Goto(t, "ask_check")
    /\ sub' = NoSub
    /\ UNCHANGED <<rpc, rlog>>
    /\ UNCHANGED pipeVars
    /\ UNCHANGED <<alive, started_at, messages, await_key, response_val, thread,
                   nthreads, wkey, wret, cpc, cnested, cjoin, issued, accepted>>

\* return self.response_val, read after the with block has been left.
AskReturn(t) ==
    /\ wpc[t] = "ask_return"
    /\ wret' = [wret EXCEPT ![t] = response_val]
    /\ Goto(t, "asked")
    /\ sub' = NoSub
    /\ UNCHANGED <<rpc, rlog>>
    /\ UNCHANGED pipeVars
    /\ UNCHANGED <<alive, started_at, messages, await_key, response_val, thread,
                   lock, nthreads, wkey, cpc, cnested, cjoin, issued, accepted>>

\* An exception of the handler is caught in multiworker_core, which logs it
\* and returns to run; uncaught it would end run, which has no try.
Uncaught == "exited"
AfterCaught == "loop"

CoreRaise(t) ==
    /\ wpc[t] \in {"core", "asked"}
    /\ Len(messages) < MaxMessages
    /\ messages' = send(messages, "error")
    /\ Goto(t, AfterCaught)
    /\ wkey' = [wkey EXCEPT ![t] = NoKey]
    /\ wret' = [wret EXCEPT ![t] = None]
    /\ sub' = NoSub
    /\ UNCHANGED <<rpc, rlog>>
    /\ UNCHANGED pipeVars
    /\ UNCHANGED <<alive, started_at, await_key, response_val, thread, lock,
                   nthreads, cpc, cnested, cjoin, issued, accepted>>

Worker(t) ==
    \/ RunStartedAt(t) \/ RunSetAlive(t) \/ RunLoop(t)
    \/ CoreSend(t) \/ CoreAsk(t) \/ CoreReturn(t) \/ CoreRaise(t)
    \/ AskAcquire(t) \/ AskClear(t) \/ AskSetKey(t) \/ AskCheck(t)
    \/ AskWake(t) \/ AskReturn(t)

\* ---- StateHandler.start / StateHandler.stop, called by the owning thread
CallStart ==
    /\ cpc = "idle"
    /\ nthreads < MaxThreads
    /\ cpc' = "start_check"
    /\ sub' = NoSub
    /\ UNCHANGED <<rpc, rlog>>
    /\ UNCHANGED pipeVars
    /\ UNCHANGED <<alive, started_at, messages, await_key, response_val, thread,
                   lock, nthreads, wpc, wkey, wret, cnested, cjoin, issued,
                   accepted>>

CallStop ==
    /\ cpc = "idle"
    /\ cpc' = "stop_set"
    /\ sub' = NoSub
    /\ UNCHANGED <<rpc, rlog>>
    /\ UNCHANGED pipeVars
    /\ UNCHANGED <<alive, started_at, messages, await_key, response_val, thread,
                   lock, nthreads, wpc, wkey, wret, cnested, cjoin, issued,
                   accepted>>

\* start, line 45: self.thread is not None
NeverHasThread(th) == FALSE
HasThread(th) == th # 0

\* if self.thread is not None: self.stop()
StartCheck ==
    /\ cpc = "start_check"
    /\ IF HasThread(thread)
         THEN cpc' = "stop_set" /\ cnested' = TRUE
         ELSE cpc' = "start_create" /\ cnested' = cnested
    /\ sub' = NoSub
    /\ UNCHANGED <<rpc, rlog>>
    /\ UNCHANGED pipeVars
    /\ UNCHANGED <<alive, started_at, messages, await_key, response_val, thread,
                   lock, nthreads, wpc, wkey, wret, cjoin, issued, accepted>>

\* self.thread = Thread(target=self.run, ...)
StartCreate ==
    /\ cpc = "start_create"
    /\ nthreads' = nthreads + 1
    /\ thread' = nthreads + 1
    /\ cpc' = "start_launch"
    /\ sub' = NoSub
    /\ UNCHANGED <<rpc, rlog>>
    /\ UNCHANGED pipeVars
    /\ UNCHANGED <<alive, started_at, messages, await_key, response_val, lock,
                   wpc, wkey, wret, cnested, cjoin, issued, accepted>>

\* self.thread.start()
StartLaunch ==
    /\ cpc = "start_launch"
    /\ wpc' = [wpc EXCEPT ![thread] = "run_start"]
    /\ cpc' = "idle"
    /\ sub' = NoSub
    /\ UNCHANGED <<rpc, rlog>>
    /\ UNCHANGED pipeVars
    /\ UNCHANGED <<alive, started_at, messages, await_key, response_val, thread,
                   lock, nthreads, wkey, wret, cnested, cjoin, issued, accepted>>

\* self.alive = False
StopSetAlive ==
    /\ cpc = "stop_set"
    /\ alive' = FALSE
    /\ cpc' = "stop_join"
    /\ sub' = NoSub
    /\ UNCHANGED <<rpc, rlog>>
    /\ UNCHANGED pipeVars
    /\ UNCHANGED <<started_at, messages, await_key, response_val, thread, lock,
                   nthreads, wpc, wkey, wret, cnested, cjoin, issued, accepted>>

\* Thread.join returns once the thread's run has ended.
JoinedAtOnce(t) == TRUE
Joined(t) == wpc[t] = "exited"

\* self.thread.join(): AttributeError when self.thread is None.
StopJoin ==
    /\ cpc = "stop_join"
    /\ IF thread = 0
         THEN cpc' = "idle" /\ cjoin' = cjoin
         ELSE /\ Joined(thread)
              /\ cjoin' = thread
              /\ cpc' = "stop_clear"
    /\ sub' = NoSub
    /\ UNCHANGED <<rpc, rlog>>
    /\ UNCHANGED pipeVars
    /\ UNCHANGED <<alive, started_at, messages, await_key, response_val, thread,
                   lock, nthreads, wpc, wkey, wret, cnested, issued, accepted>>

\* self.thread = None
StopClear ==
    /\ cpc = "stop_clear"
    /\ thread' = 0
    /\ cpc' = "stop_reset"
    /\ sub' = NoSub
    /\ UNCHANGED <<rpc, rlog>>
    /\ UNCHANGED pipeVars
    /\ UNCHANGED <<alive, started_at, messages, await_key, response_val, lock,
                   nthreads, wpc, wkey, wret, cnested, cjoin, issued, accepted>>

\* self.started_at = datetime.datetime.min
StopReset ==
    /\ cpc = "stop_reset"
    /\ started_at' = "min"
    /\ cpc' = "stop_returned"
    /\ sub' = NoSub
    /\ UNCHANGED <<rpc, rlog>>
    /\ UNCHANGED pipeVars
    /\ UNCHANGED <<alive, messages, await_key, response_val, thread, lock,
                   nthreads, wpc, wkey, wret, cnested, cjoin, issued, accepted>>

\* stop() has returned: to start(), line 47, or to the caller.
StopReturn ==
    /\ cpc = "stop_returned"
    /\ cpc' = IF cnested THEN "start_create" ELSE "idle"
    /\ cnested' = FALSE
    /\ sub' = NoSub
    /\ UNCHANGED <<rpc, rlog>>
    /\ UNCHANGED pipeVars
    /\ UNCHANGED <<alive, started_at, messages, await_key, response_val, thread,
                   lock, nthreads, wpc, wkey, wret, cjoin, issued, accepted>>

InCall ==
    \/ StartCheck \/ StartCreate \/ StartLaunch
    \/ StopSetAlive \/ StopJoin \/ StopClear \/ StopReset \/ StopReturn

\* ---- the web request that delivers an answer: the form of question
\* number q (0: a request without a uuid field) is posted with value v.
\* Under the condition's lock, a submission carrying the identifier of the
\* outstanding question fills the answer slot, clears the question and
\* notifies the condition; any other submission is dropped.
MatchesAnyId(key, id) == id # 0
Matches(key, id) == key # NoKey /\ id # 0 /\ key.uuid = id

Answer(q, v) ==
    /\ lock = 0
    /\ LET s == [q |-> q, id |-> IF q = 0 THEN 0 ELSE issued[q]] IN
       /\ sub' = s
       /\ IF Matches(await_key, s.id)
            THEN /\ response_val' = v
                 /\ await_key' = NoKey
                 /\ accepted' = [q |-> q, id |-> s.id, val |-> v]
            ELSE UNCHANGED <<response_val, await_key, accepted>>
    /\ UNCHANGED <<alive, started_at, messages, thread, lock, nthreads, wpc,
                   wkey, wret, cpc, cnested, cjoin, issued, rpc, rlog>>
    /\ UNCHANGED pipeVars

\* ---- StateHandler.response, run by a web request thread: the messages are
\* read (line 36), then await_key (line 37); the condition is not taken.
ResponseReadMessages ==
    /\ rpc = "idle"
    /\ rlog' = messages
    /\ rpc' = "read_key"
    /\ sub' = NoSub
    /\ UNCHANGED pipeVars
    /\ UNCHANGED <<alive, started_at, messages, await_key, response_val, thread,
                   lock, nthreads, wpc, wkey, wret, cpc, cnested, cjoin, issued,
                   accepted>>

\* The page is built from the messages read and the await_key found now.
ResponseReadKey ==
    /\ rpc = "read_key"
    /\ rlog' = <<>>
    /\ rpc' = "idle"
    /\ sub' = NoSub
    /\ UNCHANGED pipeVars
    /\ UNCHANGED <<alive, started_at, messages, await_key, response_val, thread,
                   lock, nthreads, wpc, wkey, wret, cpc, cnested, cjoin, issued,
                   accepted>>

response == ResponseReadMessages \/ ResponseReadKey

ChanNext ==
    \/ \E t \in Threads : Worker(t)
    \/ CallStart
    \/ CallStop
    \/ InCall
    \/ \E q \in 0..Len(issued), v \in Values : Answer(q, v)

\* ============================================================== _submit.py

MULTI_SAVE_KEY == "repository_saves_multi"
ALWAYS_BATCH_MODE == TRUE
AlwaysIssueAndBranchOff == FALSE
ALWAYS_ISSUE_AND_BRANCH == TRUE
ALWAYS_PLAIN_PR == TRUE

Repos == {"A", "B"}

\* The fix records (reposave) that the staging step can have saved.
Save(repo, dir, del, add, files) ==
    [reponame |-> repo, repodir |-> dir, del_word |-> del, add_word |-> add,
     file_paths |-> files]

SaveTeh == Save("A", "/w/A", "teh", "the", <<"README.md">>)
SaveWierd == Save("A", "/w/A", "wierd", "weird", <<"docs/x.md">>)
SaveElsewhere == Save("A", "/w/A2", "recieve", "receive", <<"a.md">>)
SaveB == Save("B", "/w/B", "recieve", "receive", <<"a.md">>)
Saves == {SaveTeh, SaveWierd, SaveElsewhere, SaveB}

\* The batches a caller hands to a terminal task it enqueues itself.
Payloads(repo) ==
    IF repo = "A"
      THEN {<<>>, <<SaveTeh>>, <<SaveTeh, SaveWierd>>, <<SaveTeh, SaveElsewhere>>}
      ELSE {<<SaveB>>}

\* What the git and GitHub calls of one task do: all succeed, or the commit,
\* the push or the create_pr call fails.
Failures == {"none", "commit", "push", "pr"}

RECURSIVE SavesFor(_, _)
\* [reposave for reposave in saves if reposave["reponame"] == reponame]
SavesFor(saves, reponame) ==
    IF saves = <<>> THEN <<>>
    ELSE LET rest == SavesFor(Tail(saves), reponame) IN
         IF Head(saves).reponame = reponame THEN <<Head(saves)>> \o rest ELSE rest

\* ---- tasks and the controller's queue
DefaultPriority == 0
Priorities == {5, 20}

NewTask(id, parent, name, interactive, priority, reponame, saves) ==
    [id |-> id, parent |-> parent, name |-> name, interactive |-> interactive,
     priority |-> priority, reponame |-> reponame, saves |-> saves]

NoTask == NewTask(0, 0, "none", FALSE, 0, "", <<>>)

\* What running a piece of code did: the side effects performed, in order,
\* the exception that left it ("none": it returned) and the status string
\* that non_interactive_submit_commit_multi returned in it ("": none).
Outcome(events, raised) == [events |-> events, raised |-> raised, status |-> ""]

\* non_interactive_submit_commit_multi returns a string.
Returned(events, status) ==
    [events |-> events, raised |-> "none", status |-> status]

\* A plain first-in first-out queue.
InsertTaskLast(q, task) == Append(q, task)

RECURSIVE InsertTask(_, _)
\* controller.add: the task goes behind every queued task of the same or a
\* higher priority and before the tasks of a lower one.
InsertTask(q, task) ==
    IF q = <<>> THEN <<task>>
    ELSE IF Head(q).priority < task.priority THEN <<task>> \o q
    ELSE <<Head(q)>> \o InsertTask(Tail(q), task)

\* ---- commit preparation and submission
\* make_a_commit_multi: nothing for an empty batch, make_a_commit for one
\* record; for more, list has no method sorted (line 378).
make_a_commit_multi(saves) ==
    IF saves = <<>> THEN Outcome(<<>>, "none")
    ELSE IF Len(saves) = 1 THEN Outcome(<<"write_commit_file">>, "none")
    ELSE Outcome(<<>>, "AttributeError")

\* push_commit_multi: git commit -F __commit__.txt, then git push.
push_commit_multi(fail) ==
    IF fail = "commit" THEN Outcome(<<>>, "ProcessExecutionError")
    ELSE IF fail = "push" THEN Outcome(<<"commit">>, "ProcessExecutionError")
    ELSE Outcome(<<"commit", "push">>, "none")

\* non_interactive_prepare_commit_multi: ValueError for an empty batch or
\* records of different repodir; load_commit_like_file then reads the
\* __commit__.txt that make_a_commit has just written (its second line is
\* blank); push_commit_multi commits and pushes.
MismatchedRepodir(saves) ==
    \E i \in 1..Len(saves) : saves[1].repodir # saves[i].repodir

non_interactive_prepare_commit_multi(saves, fail) ==
    IF saves = <<>> THEN Outcome(<<>>, "ValueError")
    ELSE IF MismatchedRepodir(saves) THEN Outcome(<<>>, "ValueError")
    ELSE push_commit_multi(fail)

\* non_interactive_submit_commit_multi: ValueError, ProcessExecutionError
\* and GithubException end in a status string, not in an exception.
non_interactive_submit_commit_multi(saves, fail) ==
    LET prep == non_interactive_prepare_commit_multi(saves, fail) IN
    IF prep.raised = "ValueError"
      THEN Returned(prep.events, "Failed to process")
    ELSE IF prep.raised = "ProcessExecutionError"
      THEN Returned(prep.events, "Failed to commit")
    ELSE IF fail = "pr" THEN Returned(prep.events, "Failed to create pr")
    ELSE Returned(prep.events \o <<"create_pr">>, "Created PR")

\* A submission that asks the operator before it starts.
PlainPrAsksFirst(saves, fail) == Outcome(<<"get_confirmation">>, "none")

\* plain_pr_for: the string returned by the submission is dropped, the
\* model keeps it to tell what the submission came to.
plain_pr_for(saves, fail) ==
    LET made == make_a_commit_multi(saves) IN
    IF made.raised # "none" THEN made
    ELSE LET sent == non_interactive_submit_commit_multi(saves, fail) IN
         [sent EXCEPT !.events = made.events \o sent.events]

\* full_pr_for: make_issue_multi is not defined (line 214).
full_pr_for(saves, fail) == Outcome(<<>>, "NameError")

\* issue_and_branch_for: reposave is not defined (line 226).
issue_and_branch_for(saves, fail) == Outcome(<<>>, "NameError")

\* ---- the task handlers.  A handler's result: the side effects and the
\* controller.add calls it made, in order (an add is the event <<"add", i>>
\* for the i-th task of added), the exception that ended it, and the store.
Result(events, raised, added, newstore) ==
    [events |-> events, raised |-> raised, added |-> added, store |-> newstore,
     status |-> ""]

Proto(name, interactive, priority, reponame, saves) ==
    [name |-> name, interactive |-> interactive, priority |-> priority,
     reponame |-> reponame, saves |-> saves]

\* add_cleanup
CleanupForOther(reponame) == Proto("cleanup", FALSE, 20, reponame, <<>>)
add_cleanup(reponame) == Proto("cleanup", TRUE, 20, reponame, <<>>)

\* check_if_plain_pr: no ISSUE_TEMPLATE, no pull_request_template.md and no
\* CONTRIBUTING.md in the working copy.
RepoFiles == [issue_template : BOOLEAN, pr_template : BOOLEAN,
              contributing : BOOLEAN]

check_if_plain_pr(files) ==
    ~(files.issue_template \/ files.pr_template \/ files.contributing)

\* submit.handler, lines 83-105: the plain/full choice; agree is the
\* answer get_confirmation would return.
submit_plain(saves, agree) ==
    IF Len(saves) = 1
      THEN IF ~ALWAYS_PLAIN_PR THEN agree ELSE TRUE
      ELSE FALSE

\* submit.handler, lines 108-110
NextTaskName(plain) ==
    IF ALWAYS_ISSUE_AND_BRANCH THEN "issue_and_branch"
    ELSE IF plain THEN "plain_pr" ELSE "full_pr"

\* submit.handler, line 116: set_json_value(MULTI_SAVE_KEY, [])
StoreKept(st, reponame) == st
StoreAfterSubmit(st, reponame) == <<>>

submit(task, st, agree) ==
    LET reponame == task.reponame
        repository_saves_multi == SavesFor(st, reponame)
        plain == submit_plain(repository_saves_multi, agree)
        asks == IF Len(repository_saves_multi) = 1 /\ ~ALWAYS_PLAIN_PR
                  THEN <<"send", "get_confirmation">> ELSE <<>>
    IN Result(asks \o <<"add", "set_json_value">>, "none",
              <<Proto(NextTaskName(plain), FALSE, DefaultPriority, reponame,
                      repository_saves_multi)>>,
              StoreAfterSubmit(st, reponame))

TerminalNoCleanup(done, task, st) ==
    [Result(done.events, done.raised, <<>>, st) EXCEPT !.status = done.status]

\* plain_pr / full_pr / issue_and_branch: the submission, then add_cleanup.
Terminal(done, task, st) ==
    IF done.raised # "none" THEN Result(done.events, done.raised, <<>>, st)
    ELSE [Result(done.events \o <<"add">>, "none",
                 <<add_cleanup(task.reponame)>>, st)
            EXCEPT !.status = done.status]

plain_pr(task, st, fail) == Terminal(plain_pr_for(task.saves, fail), task, st)
full_pr(task, st, fail) == Terminal(full_pr_for(task.saves, fail), task, st)
issue_and_branch(task, st, fail) ==
    Terminal(issue_and_branch_for(task.saves, fail), task, st)

\* cleanup: finalizes the working copy; adds nothing.
cleanup(task, st) == Result(<<"cleanup">>, "none", <<>>, st)

\* submit_handlers, and the cleanup handler registered beside them
TerminalNames == {"issue_and_branch", "plain_pr", "full_pr"}
HandlerNames == {"submit"} \cup TerminalNames

Handle(task, st, agree, fail) ==
    CASE task.name = "submit" -> submit(task, st, agree)
      [] task.name = "plain_pr" -> plain_pr(task, st, fail)
      [] task.name = "full_pr" -> full_pr(task, st, fail)
      [] task.name = "issue_and_branch" -> issue_and_branch(task, st, fail)
      [] OTHER -> cleanup(task, st)

NoResult == [task |-> NoTask, events |-> <<>>, raised |-> "none",
             added |-> <<>>, suggest_plain |-> FALSE, status |-> "",
             fail |-> "none", no_issues |-> FALSE]

PipeInit ==
    /\ store = <<>>
    /\ queue = <<>>
    /\ nextId = 0
    /\ executed = <<>>
    /\ last = NoResult

InStore(r) == \E i \in 1..Len(store) : store[i] = r

\* add_repo_save: the staging step saves one more fix record.
AddRepoSave(r) ==
    /\ Len(store) < MaxStore
    /\ ~InStore(r)
    /\ store' = Append(store, r)
    /\ UNCHANGED <<queue, nextId, executed, last>>
    /\ UNCHANGED chanVars

\* A caller enqueues a task of one of the submit_handlers names, without a
\* priority; a terminal task is given its batch.
Enqueue(name, reponame, saves) ==
    /\ nextId < MaxTasks
    /\ nextId' = nextId + 1
    /\ queue' = InsertTask(queue, NewTask(nextId + 1, 0, name, name = "submit",
                                          DefaultPriority, reponame, saves))
    /\ UNCHANGED <<store, executed, last>>
    /\ UNCHANGED chanVars

\* A caller enqueues a task with a priority.
EnqueueWithPriority(name, priority) ==
    /\ nextId < MaxQueued
    /\ nextId' = nextId + 1
    /\ queue' = InsertTask(queue, NewTask(nextId + 1, 0, name, name = "submit",
                                          priority, "A", <<>>))
    /\ UNCHANGED <<store, executed, last>>
    /\ UNCHANGED chanVars

RECURSIVE AddAll(_, _, _, _)
\* The controller.add calls of a handler, in order; the tasks are numbered
\* as they are created and remember the task whose handler added them.
AddAll(q, protos, n, parent) ==
    IF protos = <<>> THEN q
    ELSE LET p == Head(protos) IN
         AddAll(InsertTask(q, NewTask(n + 1, parent, p.name, p.interactive,
                                      p.priority, p.reponame, p.saves)),
                Tail(protos), n + 1, parent)

Numbered(protos, n, parent) ==
    [i \in 1..Len(protos) |->
        NewTask(n + i, parent, protos[i].name, protos[i].interactive,
                protos[i].priority, protos[i].reponame, protos[i].saves)]

\* What a task's handler meets outside the program: the files of the
\* working copy that check_if_plain_pr looks for (submit calls it, and asks
\* for a confirmation, only when ALWAYS_PLAIN_PR is off), and the outcome of
\* the git and GitHub calls of a terminal task (with an empty batch no call
\* is made: the batch is refused first).
FilesRead(task) ==
    IF task.name = "submit" THEN RepoFiles
    ELSE {[issue_template |-> FALSE, pr_template |-> FALSE,
           contributing |-> FALSE]}

AnswersRead(task) ==
    IF task.name = "submit" /\ ~ALWAYS_PLAIN_PR THEN BOOLEAN ELSE {TRUE}

FailuresMet(task) ==
    IF task.name \in TerminalNames /\ task.saves # <<>>
      THEN Failures ELSE {"none"}

\* issue_and_branch_for, lines 225-229: the opt-out marker file in the
\* working copy of the batch.
MarkerRead(task) ==
    IF task.name = "issue_and_branch" /\ task.saves # <<>>
      THEN BOOLEAN ELSE {FALSE}

\* The worker takes the first task of the queue and runs its handler to the
\* end; an exception of the handler is caught and ends only that task.
\* last.suggest_plain records, for a submit task, what check_if_plain_pr
\* finds in the working copy at that time; last.status the string the
\* submission function of a terminal task returned; last.fail which of the
\* git and GitHub calls fails for that task; last.no_issues whether the
\* working copy holds __no_issues__.txt when an issue_and_branch task runs
\* (issue_and_branch_for raises before it looks, so nothing depends on it).
Exec ==
    /\ queue # <<>>
    /\ \E files \in FilesRead(Head(queue)), agree \in AnswersRead(Head(queue)),
          fail \in FailuresMet(Head(queue)),
          no_issues \in MarkerRead(Head(queue)) :
         LET task == Head(queue)
             res == Handle(task, store, agree, fail)
         IN /\ store' = res.store
            /\ queue' = AddAll(Tail(queue), res.added, nextId, task.id)
            /\ nextId' = nextId + Len(res.added)
            /\ executed' = Append(executed, task)
            /\ last' = [task |-> task, events |-> res.events,
                        raised |-> res.raised,
                        added |-> Numbered(res.added, nextId, task.id),
                        suggest_plain |-> task.name = "submit"
                                          /\ check_if_plain_pr(files),
                        status |-> res.status,
                        fail |-> fail,
                        no_issues |-> no_issues]
    /\ UNCHANGED chanVars

\* ========================================================== specifications

Init == ChanInit /\ PipeInit

Next == ChanNext

Spec == Init /\ [][Next]_vars

\* The channel with the web requests that show the page: response() only
\* reads, so the other specifications leave it out.
RenderNext ==
    \/ ChanNext
    \/ response

SpecRender == Init /\ [][RenderNext]_vars

\* The submission pipeline: fixes are saved, tasks are enqueued and run.
PipeNext ==
    \/ \E r \in Saves : AddRepoSave(r)
    \/ \E reponame \in Repos : Enqueue("submit", reponame, <<>>)
    \/ \E name \in TerminalNames, reponame \in Repos :
         \E saves \in Payloads(reponame) : Enqueue(name, reponame, saves)
    \/ Exec

SpecPipeline == Init /\ [][PipeNext]_vars

\* The task queue: tasks are enqueued with priorities and run.
QueueNext ==
    \/ \E name \in HandlerNames, priority \in Priorities :
         EnqueueWithPriority(name, priority)
    \/ Exec

SpecQueue == Init /\ [][QueueNext]_vars

\* The worker keeps taking tasks while there are any.
FairQueue == SpecQueue /\ WF_vars(Exec)

\* Threads that can take a step are scheduled: a worker thread keeps running
\* and a call of start() or stop() that can go on does go on. Calls of
\* start() and stop() and answers are made at the environment's pleasure.
FairSpec == Spec /\ WF_vars(InCall) /\ \A t \in Threads : WF_vars(Worker(t))

\* ================================================================= claims

\* C1: when get_await has returned to the worker, the value it returned is
\* the value of the accepted submission that carried the identifier of the
\* question asked (falsy values included), it is not the answer to an earlier
\* question, and the question slot await_key is empty.
C1_AskReturnsDelivered ==
    \A t \in Threads :
        wpc[t] = "asked" =>
            /\ accepted.id = wkey[t].uuid
            /\ accepted.q = Len(issued)
            /\ wret[t] = accepted.val
            /\ await_key = NoKey

\* A second question has been answered with the falsy value False and
\* get_await has returned it.
C1_Witness ==
    \E t \in Threads :
        /\ wpc[t] = "asked"
        /\ Len(issued) = 2
        /\ accepted.q = 2
        /\ wret[t] = "False"
        /\ await_key = NoKey

\* C2: while the worker waits in get_await, a submission without an
\* identifier, or with the identifier of another question than the
\* outstanding one, changes neither the answer slot nor the pending question
\* nor the worker's position, and the worker leaves the wait only on an
\* accepted submission of the outstanding question.
Stray(s, key, n) == s.q >= 0 /\ (s.id = 0 \/ s.q # n \/ s.id # key.uuid)

C2_MismatchDropped ==
    [][\A t \in Threads :
        /\ (wpc[t] = "ask_wait" /\ Stray(sub', await_key, Len(issued))) =>
              /\ response_val' = response_val
              /\ await_key' = await_key
              /\ wpc' = wpc
        /\ (wpc[t] = "ask_check" /\ wpc'[t] = "ask_return") =>
              /\ accepted.q = Len(issued)
              /\ accepted.id = wkey[t].uuid]_vars

\* The form of the first question has just been posted while the worker
\* waits for the answer to the second, and the worker still waits.
C2_Witness ==
    \E t \in Threads :
        /\ wpc[t] = "ask_wait"
        /\ Len(issued) = 2
        /\ sub.q = 1
        /\ await_key = wkey[t]
        /\ response_val = None

\* C3: once stop() waits for a worker that is parked in get_await, the
\* worker thread exits unless an answer is delivered.
C3_StopEndsBlockedAsk ==
    \A t \in Threads :
        (cpc = "stop_join" /\ ~alive /\ wpc[t] = "ask_wait")
            ~> (wpc[t] = "exited" \/ response_val # None)

\* C4: when stop() has returned, the thread it joined has left run, no
\* worker thread is running, alive is false and the thread handle is None.
C4_StopReturnsAfterExit ==
    cpc = "stop_returned" =>
        /\ cjoin # 0
        /\ wpc[cjoin] = "exited"
        /\ \A t \in Threads : wpc[t] \in {"unborn", "exited"}
        /\ ~alive
        /\ thread = 0

\* stop() has returned after joining a worker that had been running tasks.
C4_Witness ==
    /\ cpc = "stop_returned"
    /\ cjoin # 0
    /\ wpc[cjoin] = "exited"
    /\ Len(messages) > 0

\* ---- what the claims about the pipeline speak of
Ran == executed' # executed
TimesIn(tasks, id) == Cardinality({i \in 1..Len(tasks) : tasks[i].id = id})
Queued(id) == TimesIn(queue, id) > 0

\* The records of the store that belong to repo.
StoredFor(st, repo) == {st[i] : i \in {j \in 1..Len(st) : st[j].reponame = repo}}
Members(batch) == {batch[i] : i \in 1..Len(batch)}
IsBatchOf(batch, st, repo) ==
    /\ Members(batch) = StoredFor(st, repo)
    /\ Len(batch) = Cardinality(StoredFor(st, repo))

\* C5: the task the worker runs is one of the highest priority among the
\* queued tasks and, among those, the one enqueued first (priorities 5, 20, 5
\* run as 20, 5, 5); every task created is, at any time, either queued once
\* or run once, and the queue is emptied again and again, so that every
\* queued task is run.
C5_PriorityThenFifo ==
    /\ [](\A id \in 1..nextId : TimesIn(queue, id) + TimesIn(executed, id) = 1)
    /\ [][Ran =>
            LET t == last'.task IN
            /\ Queued(t.id)
            /\ \A i \in 1..Len(queue) :
                 \/ queue[i].priority < t.priority
                 \/ queue[i].priority = t.priority /\ queue[i].id >= t.id]_vars
    /\ []<>(queue = <<>>)

\* Tasks 1, 2, 3 were enqueued with priorities 5, 20, 5 and distinct names
\* and were run in the order 2, 1, 3.
C5_Witness ==
    /\ Len(executed) = 3
    /\ executed[1].id = 2 /\ executed[1].priority = 20
    /\ executed[2].id = 1 /\ executed[2].priority = 5
    /\ executed[3].id = 3 /\ executed[3].priority = 5
    /\ \A i \in 1..3 : executed[i].parent = 0
    /\ Cardinality({executed[i].name : i \in 1..3}) = 3

\* C6: a submit task run with k >= 1 records stored for its repository adds
\* one task whose batch is exactly those k records, and leaves the store
\* without a record of that repository; no terminal task, whatever its
\* outcome, puts a record back.
C6_SubmitCollapsesBatch ==
    [][/\ (Ran /\ last'.task.name = "submit"
             /\ StoredFor(store, last'.task.reponame) # {}) =>
          /\ Len(last'.added) = 1
          /\ IsBatchOf(last'.added[1].saves, store, last'.task.reponame)
          /\ TimesIn(queue', last'.added[1].id) = 1
          /\ StoredFor(store', last'.task.reponame) = {}
       /\ (Ran /\ last'.task.name \in TerminalNames) => store' = store]_vars

\* submit has just turned the two records stored for A into one batch of
\* size 2 and the store holds no record of A.
C6_Witness ==
    /\ last.task.name = "submit"
    /\ last.task.reponame = "A"
    /\ Len(last.added) = 1
    /\ last.added[1].saves = <<SaveTeh, SaveWierd>>
    /\ StoredFor(store, "A") = {}

\* C7: every run of submit adds exactly one task: issue_and_branch, one of
\* the three terminal names, not interactive, for the same repository, with
\* the records stored for that repository as its batch.
C7_SubmitPolicy ==
    [][(Ran /\ last'.task.name = "submit") =>
        /\ Len(last'.added) = 1
        /\ last'.added[1].name = "issue_and_branch"
        /\ last'.added[1].name \in TerminalNames
        /\ last'.added[1].interactive = FALSE
        /\ last'.added[1].reponame = last'.task.reponame
        /\ IsBatchOf(last'.added[1].saves, store, last'.task.reponame)
        /\ TimesIn(queue', last'.added[1].id) = 1
        /\ nextId' = nextId + 1]_vars

\* submit has run for B, whose one record it handed to issue_and_branch.
C7_Witness ==
    /\ last.task.name = "submit"
    /\ last.task.reponame = "B"
    /\ Len(last.added) = 1
    /\ last.added[1].name = "issue_and_branch"
    /\ last.added[1].saves = <<SaveB>>

\* C8 as claimed: for a repository without issue template, PR template and
\* contributing guide and one record staged, submit adds plain_pr, and a
\* plain_pr that has created the pull request adds cleanup for that
\* repository.
PlainCase ==
    /\ last.task.name = "submit"
    /\ last.suggest_plain
    /\ Len(last.added) = 1
    /\ Len(last.added[1].saves) = 1

Succeeded ==
    /\ last.task.name = "plain_pr"
    /\ last.raised = "none"
    /\ \E i \in 1..Len(last.events) : last.events[i] = "create_pr"

CleanupAdded ==
    /\ Len(last.added) = 1
    /\ last.added[1].name = "cleanup"
    /\ last.added[1].reponame = last.task.reponame
    /\ Queued(last.added[1].id)

C8_SubmitSelectsPlainPr ==
    /\ PlainCase => last.added[1].name = "plain_pr"
    /\ Succeeded => CleanupAdded

\* C8 as amended: in that case submit adds issue_and_branch, whatever the
\* files of the repository; a plain_pr task that has created the pull
\* request adds cleanup for that repository.
C8_SubmitSelectsIssueAndBranch ==
    /\ PlainCase => last.added[1].name = "issue_and_branch"
    /\ Succeeded => CleanupAdded

\* submit has run for a repository without templates and one record.
C8_Witness ==
    /\ PlainCase
    /\ last.added[1].name = "issue_and_branch"
    /\ last.added[1].saves = <<SaveB>>

\* C9: a submit task whose batch is empty or whose records disagree on
\* repodir ends with an error and adds no terminal task.
InvalidBatch(st, repo) ==
    \/ StoredFor(st, repo) = {}
    \/ \E r1, r2 \in StoredFor(st, repo) : r1.repodir # r2.repodir

C9_InvalidBatchRefused ==
    [][(Ran /\ last'.task.name = "submit"
            /\ InvalidBatch(store, last'.task.reponame)) =>
        /\ last'.raised # "none"
        /\ \A i \in 1..Len(last'.added) :
             last'.added[i].name \notin TerminalNames]_vars

\* C10: a terminal handler that returned added exactly one task, cleanup for
\* its repository, interactive, as its last step; no two cleanup tasks stem
\* from the same terminal task, and a cleanup task exists only once the
\* terminal task that added it has run.
Cleanups ==
    {queue[i] : i \in {j \in 1..Len(queue) : queue[j].name = "cleanup"}}
    \cup {executed[i] : i \in {j \in 1..Len(executed) : executed[j].name = "cleanup"}}

RanBefore(c) ==
    \E j \in 1..Len(executed) :
        /\ executed[j].id = c.parent
        /\ executed[j].name \in TerminalNames
        /\ executed[j].reponame = c.reponame
        /\ \A i \in 1..Len(executed) : executed[i].id = c.id => j < i

C10_CleanupAfterTerminal ==
    /\ (last.task.name \in TerminalNames /\ last.raised = "none") =>
          /\ Len(last.added) = 1
          /\ last.added[1].name = "cleanup"
          /\ last.added[1].reponame = last.task.reponame
          /\ last.added[1].interactive = TRUE
          /\ last.events # <<>>
          /\ \A i \in 1..Len(last.events) :
                last.events[i] = "add" <=> i = Len(last.events)
    /\ \A c \in Cleanups : RanBefore(c)
    /\ \A c1, c2 \in Cleanups : c1.parent = c2.parent => c1.id = c2.id

\* plain_pr has committed, pushed and created the pull request and then
\* added the cleanup task.
C10_Witness ==
    /\ last.task.name = "plain_pr"
    /\ last.raised = "none"
    /\ last.events = <<"write_commit_file", "commit", "push", "create_pr", "add">>
    /\ Len(last.added) = 1
    /\ last.added[1].name = "cleanup"
    /\ Queued(last.added[1].id)

\* C11: when the submission of a terminal task has failed (the batch was
\* refused, a git commit or push failed, the pull request or issue could not
\* be created, or the submission raised), the task has added no cleanup task.
FailedStatuses == {"Failed to process", "Failed to commit", "Failed to create pr"}

SubmissionFailed ==
    /\ last.task.name \in TerminalNames
    /\ (last.raised # "none" \/ last.status \in FailedStatuses)

C11_NoCleanupAfterFailure ==
    SubmissionFailed =>
        \A i \in 1..Len(last.added) : last.added[i].name # "cleanup"

\* C12: a terminal task (plain_pr, full_pr, issue_and_branch) that runs with
\* a batch of one record while a git commit or push or the GitHub call fails
\* ends by returning: the
\* failure has become one of the "Failed to ..." status strings, no exception
\* leaves the handler, and no side effect is performed a second time.
NoRepeat(events) ==
    \A i, j \in 1..Len(events) : events[i] = events[j] => i = j

C13_StrayAnswerIgnored ==
    [][/\ (sub'.q >= 0 /\ await_key = NoKey) =>
             UNCHANGED <<response_val, await_key, accepted, wret, wkey, wpc,
                         cpc, messages, issued, alive, thread>>
       /\ \A t \in Threads :
             (wpc[t] = "ask_return" /\ wpc'[t] = "asked") =>
                 wret'[t] = accepted.val]_vars

\* A second copy of the accepted answer has just been posted after the
\* worker saw the first and before get_await has returned.
C13_Witness ==
    \E t \in Threads :
        /\ wpc[t] = "ask_return"
        /\ sub.q >= 1
        /\ sub.id = accepted.id
        /\ await_key = NoKey
        /\ response_val = accepted.val

\* C14: whatever the order of the start() and stop() calls and however
\* their steps interleave with those of the worker threads, at most one
\* thread is inside run at any time, and it is the thread the handle names;
\* so at most one thread runs task handlers.
InRun(t) == wpc[t] \notin {"unborn", "exited"}
InHandler(t) ==
    wpc[t] \in {"core", "ask_acquire", "ask_clear", "ask_setkey", "ask_check",
                "ask_wait", "ask_return", "asked"}

InOrder(events, steps) ==
    \E f \in [1..Len(steps) -> 1..Len(events)] :
        /\ \A k \in 1..Len(steps) : events[f[k]] = steps[k]
        /\ \A k \in 1..(Len(steps) - 1) : f[k] < f[k + 1]

Did(events, step) == \E i \in 1..Len(events) : events[i] = step

\* A terminal task of the given name has run with one record while every
\* git and GitHub call succeeds.
RanWell(name) ==
    /\ last.task.name = name
    /\ Len(last.task.saves) = 1
    /\ last.fail = "none"

\* C15: an issue_and_branch task run for a working copy without
\* __no_issues__.txt commits and pushes, then creates the issue, then amends
\* the commit and force-pushes, in this order, and creates no pull request.
C15_IssueAndBranchSteps ==
    (RanWell("issue_and_branch") /\ ~last.no_issues) =>
        /\ InOrder(last.events,
                   <<"commit", "push", "create_issue", "amend", "force_push">>)
        /\ ~InOrder(last.events, <<"amend", "create_issue">>)
        /\ ~Did(last.events, "create_pr")

\* C16: an issue_and_branch task run for a working copy that holds
\* __no_issues__.txt does exactly what plain_pr does with the same batch
\* (commit, push, create_pr), creates no issue and does not amend or
\* force-push; run without the marker it creates no pull request.
C16_OptOutFallsBackToPlainPr ==
    /\ (RanWell("issue_and_branch") /\ last.no_issues) =>
          /\ last.raised = "none"
          /\ last.events = plain_pr(last.task, <<>>, last.fail).events
          /\ InOrder(last.events, <<"commit", "push", "create_pr">>)
          /\ ~Did(last.events, "create_issue")
          /\ ~Did(last.events, "amend")
          /\ ~Did(last.events, "force_push")
    /\ (last.task.name = "issue_and_branch" /\ ~last.no_issues) =>
          ~Did(last.events, "create_pr")

\* C17: a full_pr task that succeeds creates the issue before it pushes the
\* commit and before it creates the pull request, and creates both; a
\* plain_pr task never creates an issue.
C17_FullPrIssueFirst ==
    /\ RanWell("full_pr") =>
          /\ last.raised = "none"
          /\ InOrder(last.events, <<"create_issue", "push", "create_pr">>)
    /\ last.task.name = "plain_pr" => ~Did(last.events, "create_issue")

\* C18: a handler that raises does not end the worker thread: the thread is
\* back at the head of the loop of run with alive unchanged, and from there,
\* unless alive is cleared, it goes on to the next pass of multiworker_core.
HandlerFailed(t) ==
    /\ wpc[t] \in {"core", "asked"}
    /\ messages' = Append(messages, "error")

C18_HandlerFailureKeepsLoop ==
    /\ [][\A t \in Threads :
            HandlerFailed(t) =>
                /\ wpc'[t] = "loop"
                /\ alive' = alive
                /\ thread' = thread]_vars
    /\ \A t \in Threads :
          (wpc[t] = "loop" /\ alive /\ messages # <<>>
              /\ messages[Len(messages)] = "error")
            ~> (wpc[t] = "core" \/ ~alive)

\* A handler has raised and the worker is running the next task.
C18_Witness ==
    \E t \in Threads :
        /\ wpc[t] = "core"
        /\ alive
        /\ messages # <<>>
        /\ messages[Len(messages)] = "error"

\* C19: the message log and the question slot are only touched by a thread
\* that holds the condition's lock: send appends while the worker holds it,
\* response() reads while no other thread holds it, and the page response()
\* builds shows the log and the question of one moment (the log has not
\* grown between its two reads).
Sends(t) == wpc[t] = "core" /\ wpc'[t] = "core" /\ messages' # messages

C19_SharedStateUnderLock ==
    [][/\ \A t \in Threads : Sends(t) => lock = t
       /\ rpc' # rpc => lock = 0
       /\ (rpc = "read_key" /\ rpc' = "idle") => rlog = messages]_vars

\* C20: a task that is not interactive never asks a question: the handlers
\* of the terminal tasks (issue_and_branch, plain_pr, full_pr), which are the
\* tasks enqueued with interactive false, call neither get_confirmation nor
\* get_input, whatever their batch and whatever the git and GitHub calls do.
Asks(events) == Did(events, "get_confirmation") \/ Did(events, "get_input")

C20_NonInteractiveNeverAsks ==
    /\ (last.task # NoTask /\ ~last.task.interactive) => ~Asks(last.events)
    /\ last.task.name \in TerminalNames =>
          ~last.task.interactive /\ ~Asks(last.events)
    /\ \A i \in 1..Len(queue) :
          ~queue[i].interactive => queue[i].name \in TerminalNames

\* A plain_pr task, not interactive, has committed, pushed and created the
\* pull request without a question.
C20_Witness ==
    /\ last.task.name = "plain_pr"
    /\ ~last.task.interactive
    /\ last.status = "Created PR"
    /\ Did(last.events, "create_pr")
    /\ ~Asks(last.events)

\* C21: when stop() has cleared alive and waits for a worker that start()
\* has launched, also one that has not yet set alive itself, the worker
\* leaves run and stop() returns, with alive false.
C21_StopAfterStartReturns ==
    \A t \in Threads :
        (cpc = "stop_join" /\ thread = t
            /\ wpc[t] \in {"run_start", "run_alive"})
          ~> (cpc = "stop_returned" /\ wpc[t] = "exited" /\ ~alive)

\* C22: a submit task run for one repository leaves the stored records of
\* every other repository as they were: the records it removes from the
\* store are those of its own repository only.
C22_SubmitKeepsOtherRepos ==
    [][(Ran /\ last'.task.name = "submit") =>
        /\ \A repo \in Repos \ {last'.task.reponame} :
              StoredFor(store', repo) = StoredFor(store, repo)
        /\ \A r \in Members(store) \ Members(store') :
              r.reponame = last'.task.reponame]_vars

====
